---- MODULE Spec2Model ----
(***************************************************************************)
(* Model of main.py: the TenderGenerator class (embedding -> vector query  *)
(* -> prompt -> chat completion, six sections in a fixed order) and the    *)
(* part of main() that validates the form, runs the generator and renders  *)
(* the result.  External services are modelled by their observable         *)
(* outcomes: each call either returns a value or raises a fault.           *)
(***************************************************************************)
EXTENDS Integers, Sequences, FiniteSets, TLC

VARIABLES
    pc,               \* position of the single control flow
    form,             \* values of the form widgets when the script body runs
    project_details,  \* the dict built at lines 211-217
    idx,              \* loop index of enumerate(self.sections), 0-based
    tender_sections,  \* the dict built by generate_complete_tender (ordered)
    search_query,     \* line 102
    query_embedding,  \* line 37
    similar_sections, \* line 103: results['matches']
    prompt,           \* lines 59-74, as a sequence of tokens
    section_content,  \* line 106
    exc,              \* the exception in flight, None when there is none
    returned,         \* generate_complete_tender executed `return` (line 118)
    result,           \* its return value as received by main (line 222)
    calls,            \* trace of the external calls: call / return / fail
    ui                \* trace of the streamlit widget operations

vars == <<pc, form, project_details, idx, tender_sections, search_query,
          query_embedding, similar_sections, prompt, section_content, exc,
          returned, result, calls, ui>>

-----------------------------------------------------------------------------
(* Program constants                                                       *)

sections == << "NOTICE INVITING TENDER",
               "BRIEF INTRODUCTION",
               "INSTRUCTION TO BIDDERS",
               "SCOPE OF WORK",
               "TERMS AND CONDITIONS",
               "PRICE BID" >>

top_k == 3

None == "None"

KeyError == "KeyError"

-----------------------------------------------------------------------------
(* Inputs: what the user types and what the external services answer       *)

Titles == {"", "Road Upgrade"}

Locations == {"", "Sector 9"}

Descriptions == {"", "Resurface 4km road"}

Budgets == {"", "5 Cr"}

Durations == {1, 12}

\* faults of the transport / the remote API; the code does not classify them
Faults == {"APIConnectionError", "RateLimitError"}

Embeddings == {"vecA"}

Completions == {"text A", "text B"}

\* a match whose metadata carries "content", and one whose metadata does not
GoodMatch == [score |-> 9, metadata |-> [content |-> "ref text"]]

BadMatch == [score |-> 8, metadata |-> [source |-> "file.pdf"]]

MatchKinds == {GoodMatch, BadMatch}

RECURSIVE SeqsUpTo(_, _)
SeqsUpTo(S, n) ==
    IF n = 0 THEN {<<>>}
    ELSE LET shorter == SeqsUpTo(S, n - 1)
         IN  shorter \cup {Append(s, e) : s \in {t \in shorter : Len(t) = n - 1}, e \in S}

\* results['matches'] has at most top_k entries
MatchLists == SeqsUpTo(MatchKinds, top_k)

-----------------------------------------------------------------------------
(* Python helpers                                                          *)

\* truthiness of a str
Truthy(s) == s # ""

\* all([...])
all(xs) == \A i \in 1..Len(xs) : Truthy(xs[i])

\* a or b, on strings
Or(a, b) == IF Truthy(a) THEN a ELSE b

\* d[k] = v on an insertion-ordered dict, kept as a sequence of <<key, value>>
DictSet(d, k, v) ==
    IF \E i \in 1..Len(d) : d[i][1] = k
    THEN [i \in 1..Len(d) |-> IF d[i][1] = k THEN <<k, v>> ELSE d[i]]
    ELSE Append(d, <<k, v>>)

\* list(d.keys())
Keys(d) == [i \in 1..Len(d) |-> d[i][1]]

\* k in d
HasKey(d, k) == \E i \in 1..Len(d) : d[i][1] = k

\* sep.join(parts), every part and the separator being a sequence of tokens
RECURSIVE Join(_, _)
Join(sep, parts) ==
    IF Len(parts) = 0 THEN <<>>
    ELSE IF Len(parts) = 1 THEN parts[1]
    ELSE parts[1] \o sep \o Join(sep, Tail(parts))

\* a token of a template literal, and a token of an interpolated value
Lit(s) == <<"lit", s>>

Val(s) == <<"val", s>>

\* the widget operations are kept as records of one shape
Ev(w, op, text, frac) == [w |-> w, op |-> op, text |-> text, frac |-> frac]

NoFrac == <<0, 1>>

UI(w, op, text) == Ev(w, op, text, NoFrac)

\* an event of the trace of external calls; fault is None unless ev = "fail"
Call(ev, api, k, fault) == [ev |-> ev, api |-> api, section |-> k, fault |-> fault]

-----------------------------------------------------------------------------
NoDetails == [title |-> "", location |-> "", duration |-> 0, budget |-> "",
              description |-> ""]

NoForm == [title |-> "", location |-> "", duration |-> 12, budget |-> "",
           description |-> "", generate_button |-> FALSE]

Init ==
    /\ pc = "init_clients"
    /\ form = NoForm
    /\ project_details = NoDetails
    /\ idx = 0
    /\ tender_sections = <<>>
    /\ search_query = ""
    /\ query_embedding = None
    /\ similar_sections = <<>>
    /\ prompt = <<>>
    /\ section_content = None
    /\ exc = None
    /\ returned = FALSE
    /\ result = <<>>
    /\ calls = <<>>
    /\ ui = <<>>

-----------------------------------------------------------------------------
(* main(), lines 182-217                                                   *)

\* line 184: init_clients() returns the two client handles
InitClientsOk ==
    /\ pc = "init_clients"
    /\ pc' = "form"
    /\ UNCHANGED <<form, project_details, idx, tender_sections, search_query,
                   query_embedding, similar_sections, prompt, section_content,
                   exc, returned, result, calls, ui>>

\* lines 147-149 then 281-282: init_clients() raises, main reports and ends
InitClientsFail ==
    /\ pc = "init_clients"
    /\ \E f \in Faults :
          ui' = ui \o << UI("st", "error", "Error initializing clients: " \o f),
                         UI("st", "error", "Application initialization error: " \o f) >>
    /\ pc' = "done"
    /\ UNCHANGED <<form, project_details, idx, tender_sections, search_query,
                   query_embedding, similar_sections, prompt, section_content,
                   exc, returned, result, calls>>

\* lines 188-204: the form widgets yield the values of this script run
RenderForm ==
    /\ pc = "form"
    /\ \E t \in Titles, l \in Locations, du \in Durations, b \in Budgets,
          de \in Descriptions, btn \in BOOLEAN :
          /\ form' = [title |-> t, location |-> l, duration |-> du, budget |-> b,
                      description |-> de, generate_button |-> btn]
          /\ pc' = IF btn THEN "validate" ELSE "sidebar"
    /\ UNCHANGED <<project_details, idx, tender_sections, search_query,
                   query_embedding, similar_sections, prompt, section_content,
                   exc, returned, result, calls, ui>>

\* variant of RequiredMissing: any() written for all()
RequiredMissingAny(f) ==
    ~ (\E i \in 1..3 : Truthy(<<f.title, f.location, f.description>>[i]))

\* line 207: the condition of the required-fields check
RequiredMissing(f) == ~ all(<<f.title, f.location, f.description>>)

\* lines 207-209: a required field is empty: report and return from main
ValidateFail ==
    /\ pc = "validate"
    /\ RequiredMissing(form)
    /\ ui' = Append(ui, UI("st", "error", "Please fill in all required fields."))
    /\ pc' = "done"
    /\ UNCHANGED <<form, project_details, idx, tender_sections, search_query,
                   query_embedding, similar_sections, prompt, section_content,
                   exc, returned, result, calls>>

\* lines 211-219: build project_details and enter the spinner
ValidateOk ==
    /\ pc = "validate"
    /\ ~ RequiredMissing(form)
    /\ project_details' = [title |-> form.title,
                           location |-> form.location,
                           duration |-> form.duration,
                           budget |-> Or(form.budget, "Not specified"),
                           description |-> form.description]
    /\ ui' = Append(ui, UI("st", "spinner", "Generating tender document... This may take a few minutes."))
    /\ pc' = "gct_enter"
    /\ UNCHANGED <<form, idx, tender_sections, search_query, query_embedding,
                   similar_sections, prompt, section_content, exc, returned,
                   result, calls>>

-----------------------------------------------------------------------------
(* TenderGenerator.generate_complete_tender, lines 91-124                  *)

\* lines 93-95
GctEnter ==
    /\ pc = "gct_enter"
    /\ tender_sections' = <<>>
    /\ ui' = ui \o << Ev("progress_bar", "create", "", <<0, 1>>),
                      UI("status_text", "create", "") >>
    /\ idx' = 0
    /\ pc' = "loop"
    /\ UNCHANGED <<form, project_details, search_query, query_embedding,
                   similar_sections, prompt, section_content, exc, returned,
                   result, calls>>

\* line 102
SearchQuery(section, pd) == section \o " " \o pd.title \o " " \o pd.description

\* lines 98-103: next section: status text, search query, enter the search
LoopNext ==
    /\ pc = "loop"
    /\ idx < Len(sections)
    /\ ui' = Append(ui, UI("status_text", "text", "Generating " \o sections[idx + 1] \o "..."))
    /\ search_query' = SearchQuery(sections[idx + 1], project_details)
    /\ pc' = "embed_call"
    /\ UNCHANGED <<form, project_details, idx, tender_sections, query_embedding,
                   similar_sections, prompt, section_content, exc, returned,
                   result, calls>>

\* lines 117-118: the loop is exhausted: final status, return
LoopExit ==
    /\ pc = "loop"
    /\ idx >= Len(sections)
    /\ ui' = Append(ui, UI("status_text", "text", "Tender generation completed!"))
    /\ returned' = TRUE
    /\ pc' = "finally"
    /\ UNCHANGED <<form, project_details, idx, tender_sections, search_query,
                   query_embedding, similar_sections, prompt, section_content,
                   exc, result, calls>>

\* line 111
RecordSection ==
    /\ pc = "record"
    /\ tender_sections' = DictSet(tender_sections, sections[idx + 1], section_content)
    /\ pc' = "progress"
    /\ UNCHANGED <<form, project_details, idx, search_query, query_embedding,
                   similar_sections, prompt, section_content, exc, returned,
                   result, calls, ui>>

\* variant of Progress: idx written for idx + 1
ProgressOffByOne(i) == <<i, Len(sections)>>

\* line 114, as numerator and denominator
Progress(i) == <<i + 1, Len(sections)>>

\* lines 114-115, and the step of the for loop
UpdateProgress ==
    /\ pc = "progress"
    /\ ui' = Append(ui, Ev("progress_bar", "progress", "", Progress(idx)))
    /\ idx' = idx + 1
    /\ pc' = "loop"
    /\ UNCHANGED <<form, project_details, tender_sections, search_query,
                   query_embedding, similar_sections, prompt, section_content,
                   exc, returned, result, calls>>

\* variant of CompleteExcept: returns what was generated so far
CompleteExceptSwallow ==
    /\ pc = "except_complete"
    /\ ui' = Append(ui, UI("st", "error", "Error generating complete tender: " \o exc))
    /\ exc' = None
    /\ returned' = TRUE
    /\ pc' = "finally"
    /\ UNCHANGED <<form, project_details, idx, tender_sections, search_query,
                   query_embedding, similar_sections, prompt, section_content,
                   result, calls>>

\* lines 119-121: report and re-raise
CompleteExcept ==
    /\ pc = "except_complete"
    /\ ui' = Append(ui, UI("st", "error", "Error generating complete tender: " \o exc))
    /\ pc' = "finally"
    /\ UNCHANGED <<form, project_details, idx, tender_sections, search_query,
                   query_embedding, similar_sections, prompt, section_content,
                   exc, returned, result, calls>>

\* variant of Finally: the cleanup sits at the end of the try body
FinallyOnSuccess ==
    /\ pc = "finally"
    /\ ui' = IF returned
             THEN ui \o << UI("progress_bar", "empty", ""),
                           UI("status_text", "empty", "") >>
             ELSE ui
    /\ result' = IF returned THEN tender_sections ELSE result
    /\ pc' = "after_gct"
    /\ UNCHANGED <<form, project_details, idx, tender_sections, search_query,
                   query_embedding, similar_sections, prompt, section_content,
                   exc, returned, calls>>

\* lines 122-124, then control is back in main with the value or the exception
Finally ==
    /\ pc = "finally"
    /\ ui' = ui \o << UI("progress_bar", "empty", ""),
                      UI("status_text", "empty", "") >>
    /\ result' = IF returned THEN tender_sections ELSE result
    /\ pc' = "after_gct"
    /\ UNCHANGED <<form, project_details, idx, tender_sections, search_query,
                   query_embedding, similar_sections, prompt, section_content,
                   exc, returned, calls>>

-----------------------------------------------------------------------------
(* TenderGenerator.search_similar_sections and get_embedding, lines 22-46  *)

\* variant of EmbedCall: the embedding of the first section is reused
EmbedCallCached ==
    /\ pc = "embed_call"
    /\ IF idx = 0
       THEN /\ calls' = Append(calls, Call("call", "embedding", idx + 1, None))
            /\ pc' = "embed_wait"
       ELSE /\ calls' = calls
            /\ pc' = "query_call"
    /\ UNCHANGED <<form, project_details, idx, tender_sections, search_query,
                   query_embedding, similar_sections, prompt, section_content,
                   exc, returned, result, ui>>

\* lines 37, 25-28: the embeddings endpoint is called
EmbedCall ==
    /\ pc = "embed_call"
    /\ calls' = Append(calls, Call("call", "embedding", idx + 1, None))
    /\ pc' = "embed_wait"
    /\ UNCHANGED <<form, project_details, idx, tender_sections, search_query,
                   query_embedding, similar_sections, prompt, section_content,
                   exc, returned, result, ui>>

\* line 29: the endpoint answers
EmbedReturn ==
    /\ pc = "embed_wait"
    /\ \E v \in Embeddings : query_embedding' = v
    /\ calls' = Append(calls, Call("return", "embedding", idx + 1, None))
    /\ pc' = "query_call"
    /\ UNCHANGED <<form, project_details, idx, tender_sections, search_query,
                   similar_sections, prompt, section_content, exc, returned,
                   result, ui>>

\* line 30: the endpoint raises
EmbedFail ==
    /\ pc = "embed_wait"
    /\ \E f \in Faults :
          /\ exc' = f
          /\ calls' = Append(calls, Call("fail", "embedding", idx + 1, f))
    /\ pc' = "except_embedding"
    /\ UNCHANGED <<form, project_details, idx, tender_sections, search_query,
                   query_embedding, similar_sections, prompt, section_content,
                   returned, result, ui>>

\* variant of GetEmbeddingExcept: raises a wrapping error of its own kind
GetEmbeddingExceptWrap ==
    /\ pc = "except_embedding"
    /\ ui' = Append(ui, UI("st", "error", "Error generating embedding: " \o exc))
    /\ exc' = "EmbeddingError"
    /\ pc' = "except_search"
    /\ UNCHANGED <<form, project_details, idx, tender_sections, search_query,
                   query_embedding, similar_sections, prompt, section_content,
                   returned, result, calls>>

\* lines 30-32: report and re-raise into search_similar_sections' try block
GetEmbeddingExcept ==
    /\ pc = "except_embedding"
    /\ ui' = Append(ui, UI("st", "error", "Error generating embedding: " \o exc))
    /\ pc' = "except_search"
    /\ UNCHANGED <<form, project_details, idx, tender_sections, search_query,
                   query_embedding, similar_sections, prompt, section_content,
                   exc, returned, result, calls>>

\* lines 38-42: the vector index is queried
QueryCall ==
    /\ pc = "query_call"
    /\ calls' = Append(calls, Call("call", "query", idx + 1, None))
    /\ pc' = "query_wait"
    /\ UNCHANGED <<form, project_details, idx, tender_sections, search_query,
                   query_embedding, similar_sections, prompt, section_content,
                   exc, returned, result, ui>>

\* lines 43, 103: the index answers with at most top_k matches
QueryReturn ==
    /\ pc = "query_wait"
    /\ \E ms \in MatchLists : similar_sections' = ms
    /\ calls' = Append(calls, Call("return", "query", idx + 1, None))
    /\ pc' = "build_prompt"
    /\ UNCHANGED <<form, project_details, idx, tender_sections, search_query,
                   query_embedding, prompt, section_content, exc, returned,
                   result, ui>>

\* line 44: the query raises
QueryFail ==
    /\ pc = "query_wait"
    /\ \E f \in Faults :
          /\ exc' = f
          /\ calls' = Append(calls, Call("fail", "query", idx + 1, f))
    /\ pc' = "except_search"
    /\ UNCHANGED <<form, project_details, idx, tender_sections, search_query,
                   query_embedding, similar_sections, prompt, section_content,
                   returned, result, ui>>

\* variant of SearchExcept: reports and returns an empty list of matches
SearchExceptSwallow ==
    /\ pc = "except_search"
    /\ ui' = Append(ui, UI("st", "error", "Error searching similar sections: " \o exc))
    /\ exc' = None
    /\ similar_sections' = <<>>
    /\ pc' = "build_prompt"
    /\ UNCHANGED <<form, project_details, idx, tender_sections, search_query,
                   query_embedding, prompt, section_content, returned, result,
                   calls>>

\* lines 44-46: report and re-raise into generate_complete_tender's try block
SearchExcept ==
    /\ pc = "except_search"
    /\ ui' = Append(ui, UI("st", "error", "Error searching similar sections: " \o exc))
    /\ pc' = "except_complete"
    /\ UNCHANGED <<form, project_details, idx, tender_sections, search_query,
                   query_embedding, similar_sections, prompt, section_content,
                   exc, returned, result, calls>>

-----------------------------------------------------------------------------
(* TenderGenerator.generate_tender_section, lines 48-89                    *)

\* line 54: match['metadata']['content'] raises KeyError without the key
LacksContent(match) == "content" \notin DOMAIN match.metadata

\* line 54: one element of the list comprehension; i is enumerate's index
ExamplePart(i, match) ==
    << Lit("Example "), Val(ToString(i + 1)), Lit(":\n"), Val(match.metadata.content) >>

\* variant of Context: one numbered slot per requested match, filled or not
ContextPadded(ms) ==
    Join(<< Lit("\n\n") >>,
         [j \in 1..top_k |->
             IF j <= Len(ms) THEN ExamplePart(j - 1, ms[j])
             ELSE << Lit("Example "), Val(ToString(j)), Lit(":\n") >>])

\* lines 53-56
Context(ms) ==
    Join(<< Lit("\n\n") >>, [j \in 1..Len(ms) |-> ExamplePart(j - 1, ms[j])])

\* lines 59-74
Prompt(section_name, pd, context) ==
    << Lit("You are an expert tender document writer. Generate the "),
       Val(section_name),
       Lit(" section for a new tender based on the following project details and example sections."),
       Lit("Project Details:"),
       Lit("Title: "), Val(pd.title),
       Lit("Location: "), Val(pd.location),
       Lit("Duration: "), Val(ToString(pd.duration)), Lit(" months"),
       Lit("Budget: "), Val(pd.budget),
       Lit("Description: "), Val(pd.description),
       Lit("Similar Examples from Other Tenders:") >>
    \o context \o
    << Lit("Please generate a professional and detailed "),
       Val(section_name),
       Lit(" section that follows the style and format of the examples while being specific to this project."),
       Lit("The content should be practical, clear, and legally sound.") >>

\* variant of BuildPrompt: matches without "content" are skipped
BuildPromptSkipping ==
    /\ pc = "build_prompt"
    /\ prompt' = Prompt(sections[idx + 1], project_details,
                        Context(SelectSeq(similar_sections, LAMBDA m : ~ LacksContent(m))))
    /\ pc' = "chat_call"
    /\ UNCHANGED <<form, project_details, idx, tender_sections, search_query,
                   query_embedding, similar_sections, section_content, exc,
                   returned, result, calls, ui>>

\* lines 53-74: build the context and the prompt, or raise KeyError
BuildPrompt ==
    /\ pc = "build_prompt"
    /\ IF \E j \in 1..Len(similar_sections) : LacksContent(similar_sections[j])
       THEN /\ exc' = KeyError
            /\ pc' = "except_section"
            /\ UNCHANGED prompt
       ELSE /\ prompt' = Prompt(sections[idx + 1], project_details,
                                Context(similar_sections))
            /\ pc' = "chat_call"
            /\ UNCHANGED exc
    /\ UNCHANGED <<form, project_details, idx, tender_sections, search_query,
                   query_embedding, similar_sections, section_content,
                   returned, result, calls, ui>>

\* lines 76-84: the chat-completion endpoint is called
ChatCall ==
    /\ pc = "chat_call"
    /\ calls' = Append(calls, Call("call", "chat", idx + 1, None))
    /\ pc' = "chat_wait"
    /\ UNCHANGED <<form, project_details, idx, tender_sections, search_query,
                   query_embedding, similar_sections, prompt, section_content,
                   exc, returned, result, ui>>

\* lines 86, 106: the endpoint answers
ChatReturn ==
    /\ pc = "chat_wait"
    /\ \E t \in Completions : section_content' = t
    /\ calls' = Append(calls, Call("return", "chat", idx + 1, None))
    /\ pc' = "record"
    /\ UNCHANGED <<form, project_details, idx, tender_sections, search_query,
                   query_embedding, similar_sections, prompt, exc, returned,
                   result, ui>>

\* line 87: the endpoint raises
ChatFail ==
    /\ pc = "chat_wait"
    /\ \E f \in Faults :
          /\ exc' = f
          /\ calls' = Append(calls, Call("fail", "chat", idx + 1, f))
    /\ pc' = "except_section"
    /\ UNCHANGED <<form, project_details, idx, tender_sections, search_query,
                   query_embedding, similar_sections, prompt, section_content,
                   returned, result, ui>>

\* lines 87-89: report and re-raise into generate_complete_tender's try block
SectionExcept ==
    /\ pc = "except_section"
    /\ ui' = Append(ui, UI("st", "error", "Error generating tender section: " \o exc))
    /\ pc' = "except_complete"
    /\ UNCHANGED <<form, project_details, idx, tender_sections, search_query,
                   query_embedding, similar_sections, prompt, section_content,
                   exc, returned, result, calls>>

-----------------------------------------------------------------------------
(* main(), lines 220-282                                                   *)

\* d[k], for a key that is present
Get(d, k) == d[CHOOSE i \in 1..Len(d) : d[i][1] = k][2]

\* lines 230-233: the tabs from tab j on; stops at the first failing lookup
RECURSIVE TabBodies(_, _)
TabBodies(d, j) ==
    IF j > Len(sections) THEN <<>>
    ELSE IF ~ HasKey(d, sections[j])
    THEN << UI("tab", "markdown", "### " \o sections[j]) >>
    ELSE << UI("tab", "markdown", "### " \o sections[j]),
            UI("tab", "markdown", Get(d, sections[j])) >> \o TabBodies(d, j + 1)

\* variant of Display: renders whether or not generate_complete_tender raised
DisplayAlways ==
    /\ pc = "after_gct"
    /\ LET head == << UI("st", "success", "Tender document generated successfully!"),
                      UI("st", "tabs", "") >> \o TabBodies(result, 1)
       IN  IF \A j \in 1..Len(sections) : HasKey(result, sections[j])
           THEN ui' = ui \o head \o << UI("st", "download_button", "Download as Text"),
                                       UI("st", "download_button", "Download as JSON") >>
           ELSE ui' = ui \o head \o << UI("st", "error",
                                          "An error occurred during tender generation: " \o KeyError) >>
    /\ exc' = None
    /\ pc' = "sidebar"
    /\ UNCHANGED <<form, project_details, idx, tender_sections, search_query,
                   query_embedding, similar_sections, prompt, section_content,
                   returned, result, calls>>

\* lines 225-262: render the returned document
Display ==
    /\ pc = "after_gct"
    /\ exc = None
    /\ LET head == << UI("st", "success", "Tender document generated successfully!"),
                      UI("st", "tabs", "") >> \o TabBodies(result, 1)
       IN  IF \A j \in 1..Len(sections) : HasKey(result, sections[j])
           THEN ui' = ui \o head \o << UI("st", "download_button", "Download as Text"),
                                 UI("st", "download_button", "Download as JSON") >>
           ELSE ui' = ui \o head \o << UI("st", "error",
                                    "An error occurred during tender generation: " \o KeyError) >>
    /\ pc' = "sidebar"
    /\ UNCHANGED <<form, project_details, idx, tender_sections, search_query,
                   query_embedding, similar_sections, prompt, section_content,
                   exc, returned, result, calls>>

\* lines 261-262: generate_complete_tender raised
MainExcept ==
    /\ pc = "after_gct"
    /\ exc # None
    /\ ui' = Append(ui, UI("st", "error", "An error occurred during tender generation: " \o exc))
    /\ exc' = None
    /\ pc' = "sidebar"
    /\ UNCHANGED <<form, project_details, idx, tender_sections, search_query,
                   query_embedding, similar_sections, prompt, section_content,
                   returned, result, calls>>

\* lines 265-279: the sidebar and the index statistics
Sidebar ==
    /\ pc = "sidebar"
    /\ \/ /\ calls' = calls \o << Call("call", "stats", 0, None), Call("return", "stats", 0, None) >>
          /\ ui' = ui \o << UI("sidebar", "info", "About"),
                            UI("sidebar", "metric", "Total Documents"),
                            UI("sidebar", "metric", "Last Updated") >>
       \/ \E f \in Faults :
             /\ calls' = calls \o << Call("call", "stats", 0, None), Call("fail", "stats", 0, f) >>
             /\ ui' = ui \o << UI("sidebar", "info", "About"),
                               UI("sidebar", "error", "Error fetching statistics: " \o f) >>
    /\ pc' = "done"
    /\ UNCHANGED <<form, project_details, idx, tender_sections, search_query,
                   query_embedding, similar_sections, prompt, section_content,
                   exc, returned, result>>

-----------------------------------------------------------------------------
Next ==
    \/ InitClientsOk
    \/ InitClientsFail
    \/ RenderForm
    \/ ValidateFail
    \/ ValidateOk
    \/ GctEnter
    \/ LoopNext
    \/ LoopExit
    \/ EmbedCall
    \/ EmbedReturn
    \/ EmbedFail
    \/ GetEmbeddingExcept
    \/ QueryCall
    \/ QueryReturn
    \/ QueryFail
    \/ SearchExcept
    \/ BuildPrompt
    \/ ChatCall
    \/ ChatReturn
    \/ ChatFail
    \/ SectionExcept
    \/ RecordSection
    \/ UpdateProgress
    \/ CompleteExcept
    \/ Finally
    \/ Display
    \/ MainExcept
    \/ Sidebar

Spec == Init /\ [][Next]_vars

-----------------------------------------------------------------------------
(* Observations on the two traces                                          *)

CoreApis == {"embedding", "query", "chat"}

\* the external calls made by generate_complete_tender
CoreCalls == SelectSeq(calls, LAMBDA e : e.api \in CoreApis)

LastCore == CoreCalls[Len(CoreCalls)]

Count(w, op) == Len(SelectSeq(ui, LAMBDA e : e.w = w /\ e.op = op))

ProgressUpdates == SelectSeq(ui, LAMBDA e : e.w = "progress_bar" /\ e.op = "progress")

ErrorTexts ==
    LET errs == SelectSeq(ui, LAMBDA e : e.w = "st" /\ e.op = "error")
    IN  [i \in 1..Len(errs) |-> errs[i].text]

\* generate_complete_tender has been entered
RunStarted == Count("progress_bar", "create") > 0

\* generate_complete_tender has been left, by return or by raise
RunOver == RunStarted /\ pc \in {"after_gct", "sidebar", "done"}

\* a partial result of any kind is on the page
ResultsShown ==
    \E i \in 1..Len(ui) :
        \/ ui[i].w = "tab"
        \/ ui[i].w = "st" /\ ui[i].op \in {"tabs", "download_button", "success"}

RunErrorShown ==
    \E i \in 1..Len(ui) :
        /\ ui[i].w = "st" /\ ui[i].op = "error"
        /\ \E f \in Faults \cup {KeyError} :
              ui[i].text = "An error occurred during tender generation: " \o f

-----------------------------------------------------------------------------
\* C1: generate_complete_tender either returns a mapping whose keys are exactly
\* the six section names in the fixed order, or raises; the mapping it returns
\* never has fewer than six entries.
C1_SixSectionsOrRaise ==
    /\ returned => /\ Keys(tender_sections) = sections
                   /\ Len(tender_sections) = 6
    /\ pc = "after_gct" =>
          IF exc = None
          THEN returned /\ Keys(result) = sections /\ Len(result) = 6
          ELSE ~ returned /\ result = <<>>

C1_Witness ==
    /\ pc = "after_gct"
    /\ exc = None
    /\ Keys(result) = sections
    /\ project_details.budget = "Not specified"

\* C2: once an external call has failed in section k, no further external call
\* is made in the run (no retry, no call for the sections k+1..6), and
\* generate_complete_tender raises instead of returning.
C2_FailureAborts ==
    LET cc == CoreCalls
        n == Len(cc)
    IN  /\ \A i \in 1..n : cc[i].ev = "fail" => i = n
        /\ (n > 0 /\ cc[n].ev = "fail") =>
              /\ ~ returned
              /\ result = <<>>
              /\ pc \in {"except_embedding", "except_search", "except_section",
                         "except_complete", "finally", "after_gct", "sidebar", "done"}
              /\ pc \in {"except_embedding", "except_search", "except_section",
                         "except_complete", "finally", "after_gct"} => exc = cc[n].fault

C2_Witness ==
    /\ pc = "after_gct"
    /\ exc # None
    /\ Len(CoreCalls) > 0
    /\ LastCore.ev = "fail"
    /\ LastCore.api = "query"
    /\ LastCore.section = 3

\* C3: the progress updates are 1/6, 2/6, ... in order, the i-th one only after
\* section i is recorded; a run without failure emits exactly 6 of them, a run
\* that fails in section k exactly k-1.
C3_ProgressUpdates ==
    /\ \A i \in 1..Len(ProgressUpdates) :
          /\ ProgressUpdates[i].frac = <<i, 6>>
          /\ i <= Len(tender_sections)
          /\ tender_sections[i][1] = sections[i]
    /\ (pc = "after_gct" /\ exc = None) => Len(ProgressUpdates) = 6
    /\ (pc = "after_gct" /\ exc # None) =>
          Len(ProgressUpdates) = LastCore.section - 1

C3_Witness ==
    /\ pc = "after_gct"
    /\ exc = None
    /\ Len(ProgressUpdates) = 6
    /\ ProgressUpdates[6].frac = <<6, 6>>

\* C4: every run of generate_complete_tender, returning or raising, empties the
\* progress bar and the status text exactly once each, as its last step, and
\* no progress update or status message follows the release.
C4_ReleasedOnceLast ==
    /\ \A j \in 1..Len(ui) :
          (ui[j].w \in {"progress_bar", "status_text"} /\ ui[j].op # "empty") =>
              \A i \in 1..(j - 1) : ui[i].op # "empty"
    /\ RunOver =>
          /\ Count("progress_bar", "empty") = 1
          /\ Count("status_text", "empty") = 1
    /\ (RunStarted /\ ~ RunOver) =>
          /\ Count("progress_bar", "empty") = 0
          /\ Count("status_text", "empty") = 0
    /\ pc = "after_gct" =>
          /\ ui[Len(ui) - 1] = UI("progress_bar", "empty", "")
          /\ ui[Len(ui)] = UI("status_text", "empty", "")

C4_Witness ==
    /\ pc = "after_gct"
    /\ exc # None
    /\ LastCore.api = "chat"
    /\ Count("progress_bar", "empty") = 1
    /\ Count("status_text", "empty") = 1

\* the shape of the prompt when there is nothing between the examples heading
\* and the closing instruction
WellFormedEmpty(p, section_name, pd) ==
    /\ Len(p) = 20
    /\ p[2] = Val(section_name)
    /\ p[6] = Val(pd.title)
    /\ p[8] = Val(pd.location)
    /\ p[10] = Val(ToString(pd.duration))
    /\ p[13] = Val(pd.budget)
    /\ p[15] = Val(pd.description)
    /\ p[16] = Lit("Similar Examples from Other Tenders:")
    /\ p[17] = Lit("Please generate a professional and detailed ")
    /\ p[18] = Val(section_name)

\* C5: when the vector query returned zero matches, generate_tender_section
\* still builds the whole prompt, with no numbered "Example N:" label in it
\* (the fixed heading "Similar Examples from Other Tenders:" stays, followed by
\* an empty block), and calls the completion endpoint exactly once.
C5_ZeroMatches ==
    (similar_sections = <<>> /\ pc \in {"chat_call", "chat_wait", "record", "except_section"}) =>
        /\ WellFormedEmpty(prompt, sections[idx + 1], project_details)
        /\ \A i \in 1..Len(prompt) : prompt[i] # Lit("Example ")
        /\ pc \in {"record", "except_section"} =>
              Len(SelectSeq(calls, LAMBDA e : /\ e.api = "chat"
                                              /\ e.ev = "call"
                                              /\ e.section = idx + 1)) = 1

C5_Witness ==
    /\ pc = "record"
    /\ similar_sections = <<>>
    /\ idx = 3
    /\ Len(prompt) = 20

\* the trace of a run without failure: per section, embedding, query, chat,
\* each call followed by its own return
ExpectedCalls ==
    [n \in 1..36 |->
        Call(IF (n - 1) % 2 = 0 THEN "call" ELSE "return",
             << "embedding", "query", "chat" >>[((n - 1) % 6) \div 2 + 1],
             (n - 1) \div 6 + 1,
             None)]

\* C6: a run without failure makes exactly 18 external calls: for each of the
\* six sections in order one embedding call, one vector query, one chat
\* completion, each started after the previous one returned, and every
\* section makes its own embedding and query calls (nothing is reused).
C6_SequentialCalls ==
    LET cc == CoreCalls
    IN  /\ \A i \in 1..Len(cc) :
              /\ i <= 36
              /\ cc[i].ev # "fail" => cc[i] = ExpectedCalls[i]
              /\ cc[i].ev = "fail" =>
                    /\ ExpectedCalls[i].ev = "return"
                    /\ cc[i].api = ExpectedCalls[i].api
                    /\ cc[i].section = ExpectedCalls[i].section
        /\ (pc = "after_gct" /\ exc = None) =>
              /\ cc = ExpectedCalls
              /\ Len(SelectSeq(cc, LAMBDA e : e.ev = "call")) = 18

C6_Witness ==
    /\ pc = "after_gct"
    /\ exc = None
    /\ Len(CoreCalls) = 36

\* the error kind the taxonomy assigns to a failing call
ErrorKindOf(api) ==
    CASE api = "embedding" -> "EmbeddingError"
      [] api = "query" -> "SearchError"
      [] api = "chat" -> "GenerationError"

\* C7, as stated: the error raised by a failing run is the one of EmbeddingError,
\* SearchError, GenerationError that belongs to the external call that failed.
C7_Original ==
    (pc = "after_gct" /\ exc # None) =>
        /\ exc \in {"EmbeddingError", "SearchError", "GenerationError"}
        /\ LastCore.ev = "fail" => exc = ErrorKindOf(LastCore.api)

\* C7, amended: a failing run raises exactly one exception, the underlying
\* fault itself, re-raised unchanged and unclassified; which step failed shows
\* only in the sequence of error messages displayed on the way up.
C7_CauseReRaised ==
    (pc = "after_gct" /\ exc # None) =>
        /\ exc = IF LastCore.ev = "fail" THEN LastCore.fault ELSE KeyError
        /\ ErrorTexts =
             IF LastCore.ev = "fail" /\ LastCore.api = "embedding"
             THEN << "Error generating embedding: " \o exc,
                     "Error searching similar sections: " \o exc,
                     "Error generating complete tender: " \o exc >>
             ELSE IF LastCore.ev = "fail" /\ LastCore.api = "query"
             THEN << "Error searching similar sections: " \o exc,
                     "Error generating complete tender: " \o exc >>
             ELSE << "Error generating tender section: " \o exc,
                     "Error generating complete tender: " \o exc >>

C7_Witness ==
    /\ pc = "after_gct"
    /\ exc = "RateLimitError"
    /\ LastCore.ev = "fail"
    /\ LastCore.api = "embedding"

\* C8: generation starts only with title, location and description all
\* non-empty; a submission with one of them empty gets the missing-fields
\* error and main returns with no embedding, query or chat call made.
C8_RequiredFields ==
    /\ (RunStarted \/ Len(CoreCalls) > 0 \/ pc = "gct_enter") =>
          /\ form.title # ""
          /\ form.location # ""
          /\ form.description # ""
    /\ (pc = "done" /\ form.generate_button
          /\ (form.title = "" \/ form.location = "" \/ form.description = "")) =>
          /\ ui = << UI("st", "error", "Please fill in all required fields.") >>
          /\ CoreCalls = <<>>
          /\ ~ RunStarted

C8_Witness ==
    /\ pc = "done"
    /\ form.generate_button
    /\ form.title # ""
    /\ form.description # ""
    /\ form.location = ""
    /\ ui = << UI("st", "error", "Please fill in all required fields.") >>

\* C9: a failed run ends with an error message and no tab and no download
\* button; tabs and download buttons appear only after a complete six-section
\* document was returned, and then every tab lookup succeeds.
C9_NoPartialResults ==
    /\ ResultsShown => /\ returned
                       /\ Keys(result) = sections
    /\ (RunOver /\ ~ returned /\ pc # "after_gct") =>
          /\ RunErrorShown
          /\ ~ ResultsShown
    /\ (RunOver /\ returned /\ pc # "after_gct") =>
          /\ Count("st", "tabs") = 1
          /\ Count("tab", "markdown") = 12
          /\ Count("st", "download_button") = 2
          /\ ~ RunErrorShown
          /\ \A j \in 1..6 :
                \E i \in 1..Len(ui) : ui[i] = UI("tab", "markdown", Get(result, sections[j]))

C9_Witness ==
    /\ pc = "sidebar"
    /\ RunStarted
    /\ ~ returned
    /\ Len(tender_sections) = 2
    /\ RunErrorShown
    /\ ~ ResultsShown

\* C10: a match without the metadata "content" field is neither skipped nor
\* swallowed: the section fails while the context is built, before any chat
\* call for that section, and the run ends without a document.
C10_MissingContentAborts ==
    /\ pc \in {"chat_call", "chat_wait", "record"} =>
          \A j \in 1..Len(similar_sections) : ~ LacksContent(similar_sections[j])
    /\ (\E j \in 1..Len(similar_sections) : LacksContent(similar_sections[j])) =>
          /\ pc \in {"build_prompt", "except_section", "except_complete",
                     "finally", "after_gct", "sidebar", "done"}
          /\ LastCore = Call("return", "query", idx + 1, None)
          /\ ~ returned
          /\ result = <<>>
          /\ pc \in {"except_section", "except_complete", "finally", "after_gct"} =>
                exc = KeyError

C10_Witness ==
    /\ pc = "after_gct"
    /\ exc = KeyError
    /\ Len(similar_sections) = 2
    /\ ~ LacksContent(similar_sections[1])
    /\ LacksContent(similar_sections[2])

====
